---- MODULE Spec2Model ----
(***************************************************************************)
(* Model of SimulationV1.py: the tire factory simulation (FactoryEnv, its  *)
(* two generator processes, and the host loop that steps the simpy         *)
(* environment).  The simpy calls made by the source (Environment.run,     *)
(* Environment.timeout, Environment.process, Resource.request and the      *)
(* release performed on leaving the `with` block) are modelled by what     *)
(* they do to the event queue and to the resource's users / put_queue.     *)
(*                                                                         *)
(* Time is an integer number of simulated seconds.  random.uniform(a, b)   *)
(* is a choice among a, the midpoint and b.  Coordinates are in tenths of  *)
(* the source's units so that the gantry stacking offset 0.2 is integral.  *)
(***************************************************************************)
EXTENDS Integers, Sequences, FiniteSets, TLC

\* ---- bounds of the model ----
MaxTires == 3
MaxTime == 240
MaxCavities == 2

\* ---- program constants ----
BUILD_SPREAD == 3
CURE_SPREAD == 60
INSPECTION_TIME == 20
CAVITY_COLS == 8
CAVITY_ROWS == 3
URGENT == 0
NORMAL == 1

MACHINE_POS == <<0, 50>>
GANTRY_POS == <<20, 50>>
FINISHING_POS == <<150, 50>>

CAVITY_POSITIONS ==
    [i \in 1..(CAVITY_ROWS * CAVITY_COLS) |->
        <<10 * (5 + ((i - 1) % CAVITY_COLS)), 10 * (3 + ((i - 1) \div CAVITY_COLS) * 2)>>]

TireIds == 1..MaxTires
NoTire == 0

\* ---- inputs: the arguments of FactoryEnv(...) and the warp-speed slider ----
NumCavitiesInputs == 0..MaxCavities
BuildTimeInputs == {2, 10}
CureTimeInputs == {50, 60, 100}
SimSpeedInputs == {10, 30}

VARIABLES
    num_cavities, build_time, cure_time, sim_speed,  \* configuration of the run
    now,            \* sim_env.now
    queue,          \* the environment's event queue, in processing order
    mode,           \* "init", "running", "snapshot", "crashed", "rejected"
    target,         \* the `until` of the most recent run() call
    users,          \* cavities.users: tires whose request was granted
    put_queue,      \* cavities.put_queue: requests not yet granted
    status,         \* tire.status ("None" before the Tire object exists)
    pos,            \* tire.pos
    color,          \* tire.color
    active_tires, gantry_queue, total_finished, tire_count,
    \* ---- history (observation only) ----
    hist,           \* per tire: the stages it has been observed in
    reqOrder,       \* tires in the order their request was issued
    grantOrder,     \* tires in the order their request was granted
    waited,         \* tires whose request was not granted when issued
    relCount,       \* per tire: number of releases it has performed
    relByHolder,    \* every release so far was performed by a holder
    stamp,          \* per tire: time of spawn / cure start / finish start / done
    exactDraws,     \* every duration drawn so far was exactly the mean
    lastEvt         \* the event processed last

cfgVars == <<num_cavities, build_time, cure_time, sim_speed>>
simVars == <<now, queue, mode, target>>
poolVars == <<users, put_queue>>
tireVars == <<status, pos, color, active_tires, gantry_queue, total_finished, tire_count>>
histVars == <<hist, reqOrder, grantOrder, waited, relCount, relByHolder, stamp, exactDraws, lastEvt>>
vars == <<cfgVars, simVars, poolVars, tireVars, histVars>>

\* ---- helpers ----
\* variant: the first element is removed, whatever was asked for
RemoveFirst_Head(s, x) == IF s = <<>> THEN <<>> ELSE Tail(s)

\* list.remove(x)
RECURSIVE RemoveFirst(_, _)
RemoveFirst(s, x) ==
    IF s = <<>> THEN <<>>
    ELSE IF Head(s) = x THEN Tail(s)
    ELSE <<Head(s)>> \o RemoveFirst(Tail(s), x)

Range(s) == {s[i] : i \in 1..Len(s)}

Evt(t, prio, kind, tire) == [t |-> t, prio |-> prio, kind |-> kind, tire |-> tire]

\* variant: the priority is ignored when two events have the same time
Before_NoPriority(a, b) == a.t <= b.t

Before(a, b) == a.t < b.t \/ (a.t = b.t /\ a.prio <= b.prio)

\* Environment.schedule: the heap orders by (time, priority, insertion id),
\* so a new event goes after every queued event that is not later than it.
Schedule(q, e) ==
    LET k == Cardinality({i \in 1..Len(q) : Before(q[i], e)})
    IN  SubSeq(q, 1, k) \o <<e>> \o SubSeq(q, k + 1, Len(q))

\* variant: the draw ranges over twice the spread
Uniform_Wide(mean, spread) == {mean - 2 * spread, mean, mean + 2 * spread}

\* random.uniform(mean - spread, mean + spread)
Uniform(mean, spread) == {mean - spread, mean, mean + spread}

\* variant: a slot is handed out without looking at the capacity
DoPut_Unbounded(u) == TRUE

\* variant: the capacity test is off by one
DoPut_OffByOne(u) == Len(u) <= num_cavities

\* Resource._do_put
DoPut(u) == Len(u) < num_cavities

\* variant: the most recent request is served first
TriggerPut_Lifo(u, pq, q, t) ==
    IF pq # <<>> /\ DoPut(u)
    THEN [users |-> Append(u, pq[Len(pq)]), put_queue |-> SubSeq(pq, 1, Len(pq) - 1),
          queue |-> Schedule(q, Evt(t, NORMAL, "request", pq[Len(pq)])),
          granted |-> <<pq[Len(pq)]>>]
    ELSE [users |-> u, put_queue |-> pq, queue |-> q, granted |-> <<>>]

\* variant: a served request is left in put_queue
TriggerPut_NoPop(u, pq, q, t) ==
    IF pq # <<>> /\ DoPut(u)
    THEN [users |-> Append(u, Head(pq)), put_queue |-> pq,
          queue |-> Schedule(q, Evt(t, NORMAL, "request", Head(pq))),
          granted |-> <<Head(pq)>>]
    ELSE [users |-> u, put_queue |-> pq, queue |-> q, granted |-> <<>>]

\* Resource._trigger_put: offers a slot to the head of put_queue only.
TriggerPut(u, pq, q, t) ==
    IF pq # <<>> /\ DoPut(u)
    THEN [users |-> Append(u, Head(pq)), put_queue |-> Tail(pq),
          queue |-> Schedule(q, Evt(t, NORMAL, "request", Head(pq))),
          granted |-> <<Head(pq)>>]
    ELSE [users |-> u, put_queue |-> pq, queue |-> q, granted |-> <<>>]

\* variant: the release frees the slot but its event is never triggered
DoRelease_NoEvent(u, q, t, tire) ==
    [users |-> RemoveFirst(u, tire), queue |-> q]

\* variant: the release leaves the request among the users
DoRelease_KeepUser(u, q, t, tire) ==
    [users |-> u, queue |-> Schedule(q, Evt(t, NORMAL, "release", tire))]

\* Resource.release -> Release event: _do_get drops the request from users
\* and the Release event is triggered.
DoRelease(u, q, t, tire) ==
    [users |-> RemoveFirst(u, tire),
     queue |-> Schedule(q, Evt(t, NORMAL, "release", tire))]

Init ==
    /\ num_cavities \in NumCavitiesInputs
    /\ build_time \in BuildTimeInputs
    /\ cure_time \in CureTimeInputs
    /\ sim_speed \in SimSpeedInputs
    /\ now = 0
    /\ target = 0
    \* simpy.Resource raises ValueError for a capacity <= 0
    /\ mode = IF num_cavities <= 0 THEN "rejected" ELSE "init"
    /\ queue = IF num_cavities <= 0 THEN <<>>
               ELSE <<Evt(0, URGENT, "init_build", NoTire)>>
    /\ users = <<>>
    /\ put_queue = <<>>
    /\ status = [i \in TireIds |-> "None"]
    /\ pos = [i \in TireIds |-> MACHINE_POS]
    /\ color = [i \in TireIds |-> "limegreen"]
    /\ active_tires = <<>>
    /\ gantry_queue = <<>>
    /\ total_finished = 0
    /\ tire_count = 1
    /\ hist = [i \in TireIds |-> <<>>]
    /\ reqOrder = <<>>
    /\ grantOrder = <<>>
    /\ waited = {}
    /\ relCount = [i \in TireIds |-> 0]
    /\ relByHolder = TRUE
    /\ stamp = [i \in TireIds |-> [spawn |-> -1, cure |-> -1, finish |-> -1, done |-> -1]]
    /\ exactDraws = TRUE
    /\ lastEvt = Evt(0, URGENT, "none", NoTire)

\* ---- the host loop ----
\* sim_env.run(until=sim_env.now + sim_speed): the stop event is scheduled
\* URGENT at the target time, then events are processed until it fires.
Run ==
    /\ mode \in {"init", "snapshot"}
    /\ now + sim_speed <= MaxTime
    /\ target' = now + sim_speed
    /\ queue' = Schedule(queue, Evt(now + sim_speed, URGENT, "until", NoTire))
    /\ mode' = "running"
    /\ UNCHANGED <<now, cfgVars, poolVars, tireVars, histVars>>

Stepping(kind) ==
    /\ mode = "running"
    /\ queue # <<>>
    /\ Head(queue).kind = kind

\* Environment.step: pop the first event and set the clock to its time.
Pop ==
    /\ now' = Head(queue).t
    /\ lastEvt' = Head(queue)

StopSimulation ==
    /\ Stepping("until")
    /\ Pop
    /\ queue' = Tail(queue)
    /\ mode' = "snapshot"
    /\ UNCHANGED <<target, cfgVars, poolVars, tireVars,
                   hist, reqOrder, grantOrder, waited, relCount, relByHolder, stamp, exactDraws>>

\* variant: a new tire starts in the gantry stage
Tire_InGantry(id) == [id |-> id, pos |-> MACHINE_POS, color |-> "limegreen", status |-> "In Gantry"]

\* Tire.__init__
Tire(id) == [id |-> id, pos |-> MACHINE_POS, color |-> "limegreen", status |-> "Building"]

\* ---- build_tire_process ----
\* variant: a negative delay is scheduled like any other
TimeoutOrFail_NoCheck(q, t, d, kind, tire) == Schedule(q, Evt(t + d, NORMAL, kind, tire))

\* env.timeout(d): a Timeout with a negative delay raises ValueError inside
\* the generator; the process then fails and its failure is an event.
TimeoutOrFail(q, t, d, kind, tire) ==
    IF d < 0 THEN Schedule(q, Evt(t, NORMAL, "proc_fail", tire))
    ELSE Schedule(q, Evt(t + d, NORMAL, kind, tire))

\* The generator is started: it runs up to its first yield.
BuildStart ==
    /\ Stepping("init_build")
    /\ Pop
    /\ \E d \in Uniform(build_time, BUILD_SPREAD) :
        /\ queue' = TimeoutOrFail(Tail(queue), Head(queue).t, d, "build_timeout", NoTire)
        /\ exactDraws' = (exactDraws /\ d = build_time)
    /\ UNCHANGED <<mode, target, cfgVars, poolVars, tireVars,
                   hist, reqOrder, grantOrder, waited, relCount, relByHolder, stamp>>

\* The build timeout fires: a Tire is created and its lifecycle process is
\* started (an URGENT Initialize event), then the loop draws the next build
\* time.  The loop is cut off after MaxTires tires.
BuildTire ==
    /\ Stepping("build_timeout")
    /\ tire_count <= MaxTires
    /\ Pop
    /\ LET t == Head(queue).t
           new == tire_count
           q1 == Schedule(Tail(queue), Evt(t, URGENT, "init_life", new))
           new_tire == Tire(new)
       IN  /\ status' = [status EXCEPT ![new] = new_tire.status]
           /\ pos' = [pos EXCEPT ![new] = new_tire.pos]
           /\ color' = [color EXCEPT ![new] = new_tire.color]
           /\ active_tires' = Append(active_tires, new)
           /\ tire_count' = tire_count + 1
           /\ hist' = [hist EXCEPT ![new] = <<new_tire.status>>]
           /\ stamp' = [stamp EXCEPT ![new].spawn = t]
           /\ IF tire_count + 1 <= MaxTires
              THEN \E d \in Uniform(build_time, BUILD_SPREAD) :
                      /\ queue' = TimeoutOrFail(q1, t, d, "build_timeout", NoTire)
                      /\ exactDraws' = (exactDraws /\ d = build_time)
              ELSE /\ queue' = q1
                   /\ exactDraws' = exactDraws
    /\ UNCHANGED <<mode, target, cfgVars, poolVars, gantry_queue, total_finished,
                   reqOrder, grantOrder, waited, relCount, relByHolder>>

\* ---- tire_lifecycle ----
\* Start of the lifecycle up to `yield req`: the request joins put_queue and
\* the resource tries to serve the head of put_queue at once.
EnterGantry ==
    /\ Stepping("init_life")
    /\ Pop
    /\ LET t == Head(queue).t
           tire == Head(queue).tire
           r == TriggerPut(users, Append(put_queue, tire), Tail(queue), t)
       IN  /\ status' = [status EXCEPT ![tire] = "In Gantry"]
           /\ pos' = [pos EXCEPT ![tire] =
                        <<GANTRY_POS[1], GANTRY_POS[2] + Len(gantry_queue) * 2>>]
           /\ gantry_queue' = Append(gantry_queue, tire)
           /\ users' = r.users
           /\ put_queue' = r.put_queue
           /\ queue' = r.queue
           /\ hist' = [hist EXCEPT ![tire] = Append(@, "In Gantry")]
           /\ reqOrder' = Append(reqOrder, tire)
           /\ grantOrder' = grantOrder \o r.granted
           /\ waited' = IF tire \in Range(r.put_queue) THEN waited \cup {tire} ELSE waited
    /\ UNCHANGED <<mode, target, cfgVars, color, active_tires, total_finished,
                   tire_count, relCount, relByHolder, stamp, exactDraws>>

occupied_positions == {pos[i] : i \in {j \in Range(active_tires) : status[j] = "Curing"}}

FreeIndexes == {i \in DOMAIN CAVITY_POSITIONS : CAVITY_POSITIONS[i] \notin occupied_positions}

\* variant: the first cavity position is taken without looking at the others
available_pos_First == CAVITY_POSITIONS[1]

\* next(p for p in CAVITY_POSITIONS if p not in occupied_positions)
available_pos == CAVITY_POSITIONS[CHOOSE i \in FreeIndexes : \A j \in FreeIndexes : i <= j]

\* The granted request is processed and the lifecycle resumes after
\* `yield req`, up to the cure timeout.  An exception raised inside the
\* `with` block (no free position, negative cure time) leaves the block,
\* which releases the request, and fails the process.
StartCuring ==
    /\ Stepping("request")
    /\ Pop
    /\ LET t == Head(queue).t
           tire == Head(queue).tire
       IN  /\ gantry_queue' = RemoveFirst(gantry_queue, tire)
           /\ IF FreeIndexes = {}
              THEN LET rel == DoRelease(users, Tail(queue), t, tire)
                   IN  /\ users' = rel.users
                       /\ queue' = Schedule(rel.queue, Evt(t, NORMAL, "proc_fail", tire))
                       /\ relCount' = [relCount EXCEPT ![tire] = @ + 1]
                       /\ relByHolder' = (relByHolder /\ tire \in Range(users))
                       /\ UNCHANGED <<status, pos, hist, stamp, exactDraws>>
              ELSE /\ status' = [status EXCEPT ![tire] = "Curing"]
                   /\ pos' = [pos EXCEPT ![tire] = available_pos]
                   /\ hist' = [hist EXCEPT ![tire] = Append(@, "Curing")]
                   /\ stamp' = [stamp EXCEPT ![tire].cure = t]
                   /\ \E d \in Uniform(cure_time, CURE_SPREAD) :
                        /\ exactDraws' = (exactDraws /\ d = cure_time)
                        /\ IF d < 0
                           THEN LET rel == DoRelease(users, Tail(queue), t, tire)
                                IN  /\ users' = rel.users
                                    /\ queue' = Schedule(rel.queue,
                                                  Evt(t, NORMAL, "proc_fail", tire))
                                    /\ relCount' = [relCount EXCEPT ![tire] = @ + 1]
                                    /\ relByHolder' = (relByHolder /\ tire \in Range(users))
                           ELSE /\ users' = users
                                /\ UNCHANGED <<relCount, relByHolder>>
                                /\ queue' = Schedule(Tail(queue),
                                              Evt(t + d, NORMAL, "cure_timeout", tire))
    /\ UNCHANGED <<mode, target, cfgVars, put_queue, color, active_tires,
                   total_finished, tire_count, reqOrder, grantOrder, waited>>

\* The cure timeout fires: the tire moves to finishing, still inside the
\* `with` block, and waits for the inspection timeout.
FinishCuring ==
    /\ Stepping("cure_timeout")
    /\ Pop
    /\ LET t == Head(queue).t
           tire == Head(queue).tire
       IN  /\ color' = [color EXCEPT ![tire] = "black"]
           /\ status' = [status EXCEPT ![tire] = "Finished"]
           /\ pos' = [pos EXCEPT ![tire] = FINISHING_POS]
           /\ queue' = Schedule(Tail(queue), Evt(t + INSPECTION_TIME, NORMAL, "inspect_timeout", tire))
           /\ hist' = [hist EXCEPT ![tire] = Append(@, "Finished")]
           /\ stamp' = [stamp EXCEPT ![tire].finish = t]
    /\ UNCHANGED <<mode, target, cfgVars, poolVars, active_tires, gantry_queue,
                   total_finished, tire_count, reqOrder, grantOrder, waited, relCount, relByHolder, exactDraws>>

\* variant: the completion is not counted
Retire_NoCount ==
    /\ Stepping("inspect_timeout")
    /\ Pop
    /\ LET t == Head(queue).t
           tire == Head(queue).tire
           rel == DoRelease(users, Tail(queue), t, tire)
       IN  /\ total_finished' = total_finished
           /\ active_tires' = RemoveFirst(active_tires, tire)
           /\ users' = rel.users
           /\ queue' = Schedule(rel.queue, Evt(t, NORMAL, "proc_end", tire))
           /\ hist' = [hist EXCEPT ![tire] = Append(@, "Done")]
           /\ stamp' = [stamp EXCEPT ![tire].done = t]
           /\ relCount' = [relCount EXCEPT ![tire] = @ + 1]
           /\ relByHolder' = (relByHolder /\ tire \in Range(users))
    /\ UNCHANGED <<mode, target, cfgVars, put_queue, status, pos, color,
                   gantry_queue, tire_count, reqOrder, grantOrder, waited, exactDraws>>

\* The inspection timeout fires: the tire is counted and removed, the `with`
\* block is left (the request is released) and the process ends.
Retire ==
    /\ Stepping("inspect_timeout")
    /\ Pop
    /\ LET t == Head(queue).t
           tire == Head(queue).tire
           rel == DoRelease(users, Tail(queue), t, tire)
       IN  /\ total_finished' = total_finished + 1
           /\ active_tires' = RemoveFirst(active_tires, tire)
           /\ users' = rel.users
           /\ queue' = Schedule(rel.queue, Evt(t, NORMAL, "proc_end", tire))
           /\ hist' = [hist EXCEPT ![tire] = Append(@, "Done")]
           /\ stamp' = [stamp EXCEPT ![tire].done = t]
           /\ relCount' = [relCount EXCEPT ![tire] = @ + 1]
           /\ relByHolder' = (relByHolder /\ tire \in Range(users))
    /\ UNCHANGED <<mode, target, cfgVars, put_queue, status, pos, color,
                   gantry_queue, tire_count, reqOrder, grantOrder, waited, exactDraws>>

\* The Release event is processed: its callback serves the head of put_queue.
ReleaseProcessed ==
    /\ Stepping("release")
    /\ Pop
    /\ LET r == TriggerPut(users, put_queue, Tail(queue), Head(queue).t)
       IN  /\ users' = r.users
           /\ put_queue' = r.put_queue
           /\ queue' = r.queue
           /\ grantOrder' = grantOrder \o r.granted
    /\ UNCHANGED <<mode, target, cfgVars, tireVars, hist, reqOrder, waited, relCount, relByHolder, stamp, exactDraws>>

\* The event of a process that returned: nothing waits for it.
ProcessEnd ==
    /\ Stepping("proc_end")
    /\ Pop
    /\ queue' = Tail(queue)
    /\ UNCHANGED <<mode, target, cfgVars, poolVars, tireVars,
                   hist, reqOrder, grantOrder, waited, relCount, relByHolder, stamp, exactDraws>>

\* The event of a failed process: nothing handles the failure, so step()
\* raises it out of run() and the script stops.
ProcessFail ==
    /\ Stepping("proc_fail")
    /\ Pop
    /\ queue' = Tail(queue)
    /\ mode' = "crashed"
    /\ UNCHANGED <<target, cfgVars, poolVars, tireVars,
                   hist, reqOrder, grantOrder, waited, relCount, relByHolder, stamp, exactDraws>>

Next ==
    \/ Run
    \/ StopSimulation
    \/ BuildStart
    \/ BuildTire
    \/ EnterGantry
    \/ StartCuring
    \/ FinishCuring
    \/ Retire
    \/ ReleaseProcessed
    \/ ProcessEnd
    \/ ProcessFail

Spec == Init /\ [][Next]_vars

\* The host loop keeps calling run() while the session is running, and a
\* run() keeps processing events until its stop event fires.
FairSpec == Spec /\ WF_vars(Next)

\* ======================= properties =======================

Stages == <<"Building", "In Gantry", "Curing", "Finished", "Done">>

IsPrefix(a, b) == Len(a) <= Len(b) /\ a = SubSeq(b, 1, Len(a))

IndexOf(seq, x) == CHOOSE i \in 1..Len(seq) : seq[i] = x

\* C1: the occupancy of the cavity pool is between 0 and num_cavities in
\* every reachable state.
C1_OccupancyWithinCapacity ==
    Len(users) >= 0 /\ Len(users) <= num_cavities

\* the pool is full while a tire waits and a further request arrives
C1_Witness ==
    /\ num_cavities >= 1
    /\ Len(users) = num_cavities
    /\ Len(put_queue) >= 2

\* C2: FIFO.  Of two tires that both had to wait, the one that requested
\* first is granted first; and no tire that requested after a tire that is
\* still waiting has been granted.
C2_FifoGrant ==
    /\ \A i, j \in 1..Len(reqOrder) :
          (i < j /\ reqOrder[i] \in waited /\ reqOrder[j] \in waited
             /\ reqOrder[j] \in Range(grantOrder))
          => /\ reqOrder[i] \in Range(grantOrder)
             /\ IndexOf(grantOrder, reqOrder[i]) < IndexOf(grantOrder, reqOrder[j])
    /\ \A i, j \in 1..Len(reqOrder) :
          (i < j /\ reqOrder[i] \in Range(put_queue))
          => reqOrder[j] \notin Range(grantOrder)

\* two tires waited at the same time and both have been granted since
C2_Witness ==
    \E a, b \in waited :
        /\ a # b
        /\ stamp[a].spawn < stamp[b].spawn
        /\ stamp[a].cure > stamp[b].spawn
        /\ stamp[b].cure >= 0

\* C3: a tire releases its cavity when its cure ends: no tire with status
\* "Finished" holds a cavity slot.
C3_NoFinishedHolder ==
    \A i \in Range(users) : status[i] # "Finished"

\* C4: the stages a tire has been observed in are a prefix of Building,
\* In Gantry, Curing, Finished, Done (no skip, no repeat, no way back), and
\* its status is the last of them until it is Done.
C4_StageSequence ==
    \A i \in TireIds :
        /\ IsPrefix(hist[i], Stages)
        /\ (status[i] = "None") = (hist[i] = <<>>)
        /\ (hist[i] # <<>> /\ hist[i][Len(hist[i])] # "Done")
              => status[i] = hist[i][Len(hist[i])]
        /\ (i \in Range(active_tires)) = (hist[i] # <<>> /\ hist[i][Len(hist[i])] # "Done")

\* a tire has gone through every stage while another one is behind it
C4_Witness ==
    \E i, j \in TireIds : hist[i] = Stages /\ status[j] = "Curing"

DoneTires == {i \in TireIds : hist[i] = Stages}

\* C5: total_finished never decreases, changes only by +1 and only when
\* one tire goes from Finished to Done, and always equals the number of
\* tires that went through all four transitions.
C5_CompletionCounter ==
    /\ [](total_finished = Cardinality(DoneTires))
    /\ [][\/ /\ total_finished' = total_finished
             /\ \A i \in TireIds : hist'[i] = hist[i] \/ hist'[i][Len(hist'[i])] # "Done"
          \/ /\ total_finished' = total_finished + 1
             /\ \E i \in TireIds :
                  /\ hist[i] = SubSeq(Stages, 1, 4)
                  /\ hist'[i] = Stages
                  /\ \A j \in TireIds \ {i} : hist'[j] = hist[j]]_vars

\* two tires have been counted
C5_Witness ==
    total_finished >= 2 /\ Cardinality(DoneTires) >= 2


Scenario ==
    num_cavities = 1 /\ build_time = 10 /\ cure_time = 100 /\ exactDraws

\* the stamp is v once the clock has passed v, and is never anything else
At(x, v) == (x = -1 \/ x = v) /\ (now > v => x = v)

\* C6: with capacity 1, every build interval 10 and every cure 100: tire 1
\* spawns at 10, cures from 10 to 110, is in finishing until 130 and is then
\* done; tire 2 spawns at 20, waits until 110 and cures from 110 to 210.
C6_ScenarioTimeline ==
    Scenario =>
        /\ At(stamp[1].spawn, 10)
        /\ At(stamp[1].cure, 10)
        /\ At(stamp[1].finish, 110)
        /\ At(stamp[1].done, 130)
        /\ At(stamp[2].spawn, 20)
        /\ At(stamp[2].cure, 110)
        /\ At(stamp[2].finish, 210)

InvalidConfiguration ==
    \/ num_cavities < 0 \/ build_time < 0 \/ cure_time < 0
    \/ BUILD_SPREAD > build_time
    \/ CURE_SPREAD > cure_time

\* C7: a configuration with a negative value or a spread above its mean is
\* rejected before any event is scheduled, so no run ever fails on a
\* negative duration.
C7_InvalidConfigRejected ==
    /\ InvalidConfiguration => (mode = "rejected" /\ queue = <<>>)
    /\ mode # "crashed"

\* C8 as stated: when a step has returned, no continuation with a deadline
\* at or before the target is still pending.
C8_AllDueInvoked ==
    mode = "snapshot" => \A i \in 1..Len(queue) : queue[i].t > target

\* C8, amended: a step to T invokes, in deadline order and with the clock at
\* each one's deadline, exactly the pending continuations with a deadline
\* before T (those scheduled during the step included) and returns with
\* now = T; the continuations due at T itself stay pending behind the stop
\* event and are left for the next step.
C8_StepRunsEarlierEvents ==
    /\ lastEvt.t = now
    /\ mode = "snapshot" =>
          /\ now = target
          /\ \A i \in 1..Len(queue) : queue[i].t >= target
    /\ mode = "running" =>
          \E k \in 1..Len(queue) :
              /\ queue[k].kind = "until" /\ queue[k].t = target
              /\ \A i \in 1..Len(queue) :
                    /\ i < k => queue[i].t < target
                    /\ i > k => queue[i].t >= target

\* a step has returned while a build timeout due at its target is pending,
\* after continuations scheduled during earlier steps have run
C8_Witness ==
    /\ mode = "snapshot"
    /\ \E i \in 1..Len(queue) : queue[i].t = now /\ queue[i].kind = "build_timeout"
    /\ \E j \in TireIds : status[j] = "Curing"

\* C9: the clock never goes back, never exceeds the target of the most
\* recent step, and a continuation runs only once the clock has reached its
\* deadline.
C9_ClockMonotonic ==
    /\ [](now <= target /\ lastEvt.t <= now)
    /\ [][now' >= now]_vars

\* an inspection timeout has just run in the middle of a later step
C9_Witness ==
    /\ mode = "running"
    /\ lastEvt.kind = "inspect_timeout"
    /\ now < target
    /\ target > 2 * sim_speed

InGantryTires == {i \in Range(active_tires) : status[i] = "In Gantry"}

\* C10: at every snapshot len(gantry_queue) is the number of active tires
\* with status "In Gantry" and the number of requests waiting in put_queue.
C10_QueueDepthAgrees ==
    mode = "snapshot" =>
        /\ Len(gantry_queue) = Cardinality(InGantryTires)
        /\ Len(gantry_queue) = Len(put_queue)
        /\ Range(gantry_queue) = InGantryTires
        /\ gantry_queue = put_queue

\* a snapshot with two tires in the gantry
C10_Witness ==
    mode = "snapshot" /\ Len(gantry_queue) >= 2


\* the model's time bound is reached: no further step is taken
HorizonReached ==
    mode \in {"init", "snapshot"} /\ now + sim_speed > MaxTime

\* C11: the production source is never blocked: while the host keeps
\* stepping, every spawn is followed by another spawn (up to the bound on
\* the number of tires), whatever the state of the pool.
C11_SpawnChain ==
    \A k \in 1..(MaxTires - 1) :
        (stamp[k].spawn >= 0) ~> (stamp[k + 1].spawn >= 0 \/ HorizonReached)


ReleasePending == \E i \in 1..Len(queue) : queue[i].kind = "release"

\* C12 as stated: whenever a tire waits, every cavity is taken.
C12_FullWhileWaiting ==
    put_queue # <<>> => Len(users) = num_cavities

\* C12, amended: a release frees the slot at once and hands it to the head
\* of the wait list at the same instant, when the Release event is
\* processed or when the next request is issued, whichever comes first.  So
\* a tire may wait beside a free slot only while a Release event of the
\* current instant is pending, never at a snapshot, and a tire requesting
\* at the instant of the release is served after the tires already waiting.
C12_HandOff ==
    /\ (put_queue # <<>> /\ ~ReleasePending) => Len(users) = num_cavities
    /\ \A i \in 1..Len(queue) : queue[i].kind = "release" => queue[i].t = now
    /\ mode = "snapshot" => ~ReleasePending
    /\ IsPrefix(grantOrder, reqOrder)
    /\ \A i \in Range(put_queue) : i \notin Range(grantOrder)

\* a tire has just issued its request between a release and the processing
\* of the Release event, while another tire was waiting: the slot went to
\* the waiting tire and the newcomer waits
C12_Witness ==
    /\ lastEvt.kind = "init_life"
    /\ ReleasePending
    /\ lastEvt.tire \in Range(put_queue)
    /\ Len(users) = num_cavities
    /\ \E w \in waited : w # lastEvt.tire /\ w \in Range(users) /\ stamp[w].cure = -1


Count(seq, x) == Cardinality({i \in 1..Len(seq) : seq[i] = x})

\* C13: a tire holds at most one slot, only after its own request was
\* granted, releases exactly once (which ends its hold), and no release is
\* performed by a tire that is not a holder.
C13_HoldAndRelease ==
    /\ relByHolder
    /\ \A i \in TireIds :
          /\ Count(users, i) <= 1
          /\ Count(grantOrder, i) <= 1
          /\ Count(reqOrder, i) <= 1
          /\ Count(users, i) = 1 => (Count(grantOrder, i) = 1 /\ relCount[i] = 0)
          /\ Count(grantOrder, i) = 1 => Count(reqOrder, i) = 1
          /\ relCount[i] <= 1
          /\ relCount[i] = 1 => (Count(grantOrder, i) = 1 /\ Count(users, i) = 0)
          /\ (hist[i] = Stages) => relCount[i] = 1

\* one tire has released its slot, a second holds it and a third waits
C13_Witness ==
    \E i, j, k \in TireIds :
        /\ relCount[i] = 1 /\ hist[i] = Stages
        /\ j \in Range(users) /\ status[j] = "Curing"
        /\ k \in Range(put_queue)


CuringTires == {i \in Range(active_tires) : status[i] = "Curing"}

PositionsOf(seq) == {seq[i] : i \in DOMAIN seq}

\* C14: no two tires with status "Curing" share a cavity position, and a
\* curing tire is at one of the cavity positions.
C14_PositionExclusive ==
    /\ \A i, j \in CuringTires : i # j => pos[i] # pos[j]
    /\ \A i \in CuringTires : pos[i] \in PositionsOf(CAVITY_POSITIONS)

\* two tires cure at the same time, the later one in the first position
\* because the tire that had it has moved on
C14_Witness ==
    \E i, j \in CuringTires :
        /\ i < j
        /\ pos[i] = CAVITY_POSITIONS[2]
        /\ pos[j] = CAVITY_POSITIONS[1]


\* C15: a cure lasts between cure_time - 60 and cure_time + 60, the
\* finishing stage lasts exactly 20, and consecutive spawns are between
\* build_time - 3 and build_time + 3 apart.
C15_StageDurations ==
    \A i \in TireIds :
        /\ stamp[i].finish >= 0 =>
              /\ stamp[i].cure >= 0
              /\ stamp[i].finish - stamp[i].cure >= cure_time - CURE_SPREAD
              /\ stamp[i].finish - stamp[i].cure <= cure_time + CURE_SPREAD
        /\ stamp[i].done >= 0 =>
              /\ stamp[i].finish >= 0
              /\ stamp[i].done - stamp[i].finish = INSPECTION_TIME
        /\ (i > 1 /\ stamp[i].spawn >= 0) =>
              /\ stamp[i - 1].spawn >= 0
              /\ stamp[i].spawn - stamp[i - 1].spawn >= build_time - BUILD_SPREAD
              /\ stamp[i].spawn - stamp[i - 1].spawn <= build_time + BUILD_SPREAD

\* a tire that waited has cured for the longest time and is done, and the
\* tire after it was spawned after the shortest interval
C15_Witness ==
    \E i \in TireIds \ {1, MaxTires} :
        /\ i \in waited
        /\ stamp[i].done >= 0
        /\ stamp[i].finish - stamp[i].cure = cure_time + CURE_SPREAD
        /\ stamp[i + 1].spawn - stamp[i].spawn = build_time - BUILD_SPREAD


Spawned == {i \in TireIds : stamp[i].spawn >= 0}

\* C16: the tires spawned so far (tire_count - 1 of them, with the ids
\* 1..tire_count-1 given in spawn order) are the active tires plus the
\* finished ones; a tire is in active_tires, once, exactly from its spawn
\* until it is Done, and active_tires is in spawn order.
C16_Conservation ==
    /\ tire_count - 1 = Len(active_tires) + total_finished
    /\ Spawned = 1..(tire_count - 1)
    /\ \A i, j \in Spawned : i < j => stamp[i].spawn <= stamp[j].spawn
    /\ \A i \in TireIds :
          Count(active_tires, i) = IF i \in Spawned /\ stamp[i].done < 0 THEN 1 ELSE 0
    /\ \A a, b \in 1..Len(active_tires) : a < b => active_tires[a] < active_tires[b]

\* a later tire is done before an earlier one: the list has a gap
C16_Witness ==
    /\ Len(active_tires) = 2
    /\ active_tires[1] + 1 < active_tires[2]
    /\ total_finished = 1


\* the next event resumes a granted tire, which then looks for a position
GrantPending == Stepping("request")

\* C17: when a tire that was granted a cavity resumes and looks for a
\* position, fewer than num_cavities positions are held by curing tires;
\* so with num_cavities not above the number of cavity positions the lookup
\* finds one.
C17_FreePositionAtGrant ==
    GrantPending =>
        /\ Cardinality(CuringTires) < num_cavities
        /\ Cardinality(occupied_positions) < num_cavities
        /\ num_cavities <= Len(CAVITY_POSITIONS) => FreeIndexes # {}

\* a grant is pending while every other cavity is held by a curing tire
C17_Witness ==
    /\ GrantPending
    /\ num_cavities >= 2
    /\ Len(users) = num_cavities
    /\ Cardinality(CuringTires) = num_cavities - 1


\* C18: no starvation: while the host keeps stepping, every spawned tire
\* eventually acquires a cavity and reaches Done (within the time bound of
\* the model).
C18_NoStarvation ==
    \A i \in TireIds :
        (stamp[i].spawn >= 0) ~>
            ((stamp[i].cure >= 0 /\ stamp[i].done >= 0) \/ HorizonReached)

====
